---- MODULE Spec2Model ----
(***************************************************************************)
(* Model of PutOnInSceneEnv (mani_skill2/envs/custom_scenes/               *)
(* put_on_in_scene.py): the per-step evaluate() of the "put X on Y" tasks  *)
(* and the per-episode state it keeps (the grasp counter and               *)
(* episode_stats).                                                         *)
(*                                                                         *)
(* Units.  Positions and box lengths are integers in millimetres           *)
(* (0.03 m = 30, 0.005 m = 5, 0.02 m = 20); half box lengths, and what is  *)
(* compared with them, are in half millimetres, so that "/ 2" is exact on  *)
(* odd lengths too.  Impulses are integers in units of 1e-7 (1e-6 = 10).   *)
(*                                                                         *)
(* Floats.  The code computes in floating point (float32 or float64,       *)
(* depending on what the simulator and numpy hand over), so a computed     *)
(* distance, gap or impulse is its exact value up to a rounding error far  *)
(* below the model's resolution.  A computed quantity is therefore the     *)
(* pair of its exact value and the rank of its rounding error: an integer  *)
(* that orders the computed floats of one exact value as the floats are    *)
(* ordered, the code's literal of that value having rank 0 (of 30 mm:      *)
(* 0.03 has rank 0, 0.030000000000000002 rank 1, 0.030000000000000027      *)
(* rank 2, 0.029999999999999992 rank -1).  Only the order of the ranks     *)
(* matters.  The rank is fixed by the actual floats, so it is part of the  *)
(* scene; it decides a comparison exactly when the exact values tie.       *)
(* n quantities computed beside a literal need the ranks -n..n to take     *)
(* every order.                                                            *)
(***************************************************************************)
EXTENDS Integers, Sequences, FiniteSets

VARIABLES
    consecutive_grasp,  \* self.consecutive_grasp, the grasp counter
    episode_stats,      \* self.episode_stats
    scene,              \* what evaluate() reads from the simulator: poses, boxes, contacts, grasp
    ret,                \* the dict returned by the last evaluate() of this episode, or NoRet
    hist,               \* check_grasp results of the evaluate() calls since the last reset
    seen                \* for each returned flag: was it true in some evaluate() since the last reset

vars == <<consecutive_grasp, episode_stats, scene, ret, hist, seen>>

-----------------------------------------------------------------------------
(* Bounds of the model *)

MaxSteps == 6       \* evaluate() calls per episode
MaxContacts == 2    \* contact records in scene.get_contacts()
MaxOthers == 2      \* episode objects other than the source

(* Constants of the program *)

MoveThresh == 30        \* 0.03 m
XYMargin == 5           \* 0.005 m
ZGapMax == 20           \* 0.02 m
ImpulseThresh == 10     \* 1e-6, in units of 1e-7
GraspSteps == 5         \* self.consecutive_grasp >= 5

-----------------------------------------------------------------------------
(* numpy helpers *)

\* the ranks of the rounding errors of n quantities that are compared with
\* each other and with a literal
Rounds(n) == -n..n

\* a computed float: its exact value v (for a norm: the exact square) and the
\* rank of its rounding error
Float(v, rnd) == [v |-> v, rnd |-> rnd]

\* a > b and a < b on computed floats (for norms: on the squares, which order alike)
FloatGt(a, b) == a.v > b.v \/ (a.v = b.v /\ a.rnd > b.rnd)
FloatLt(a, b) == FloatGt(b, a)

\* the square of np.linalg.norm(v[:2])
NormSqXY(v) == v[1] * v[1] + v[2] * v[2]

\* the square of np.linalg.norm(v) of a 3-vector
NormSq3(v) == v[1] * v[1] + v[2] * v[2] + v[3] * v[3]

\* a - b on 3-vectors
VecSub(a, b) == <<a[1] - b[1], a[2] - b[2], a[3] - b[3]>>

\* a vector of millimetres, in half millimetres
InHalfMm(v) == <<2 * v[1], 2 * v[2], 2 * v[3]>>

\* bbox / 2: b millimetres halved are b half millimetres
HalfVec(b) == <<b[1], b[2], b[3]>>

\* the sign of sqrt(asq) - (sqrt(bsq) - c) for c >= 0, on the exact values:
\* sqrt(asq) + c <= sqrt(bsq)  <=>  2 c sqrt(asq) <= bsq - asq - c^2
NormVsNormMinus(asq, bsq, c) ==
    LET d == bsq - asq - c * c
    IN  IF d < 0 THEN 1
        ELSE IF 4 * c * c * asq < d * d THEN -1
        ELSE IF 4 * c * c * asq = d * d THEN 0
        ELSE 1

\* np.sum([point.impulse for point in points], axis=0); 0 for no points
RECURSIVE SumImpulse(_)
SumImpulse(points) ==
    IF points = <<>> THEN <<0, 0, 0>>
    ELSE LET r == SumImpulse(Tail(points))
         IN  <<points[1][1] + r[1], points[1][2] + r[2], points[1][3] + r[3]>>

-----------------------------------------------------------------------------
(* Names of the actors *)

SourceName == "src"
TargetName == "tgt"
robot_link_names == <<"link_0", "link_1">>

InSeq(x, s) == \E i \in 1..Len(s) : s[i] = x

NoRet == [none |-> TRUE]

-----------------------------------------------------------------------------
(* evaluate(), step by step *)

\* source_obj_xy_move_dist
source_obj_xy_move_dist(sc) ==
    Float(NormSqXY(VecSub(sc.episode_source_obj_xyz_after_settle, sc.source_obj_pose_p)),
          sc.round.src_move)

\* other_obj_xy_move_dist: the loop over zip(episode_objs, xyzs_after_settle)
RECURSIVE other_obj_xy_move_dist(_)
other_obj_xy_move_dist(objs) ==
    IF objs = <<>> THEN <<>>
    ELSE IF objs[1].name = SourceName
         THEN other_obj_xy_move_dist(Tail(objs))
         ELSE <<Float(NormSqXY(VecSub(objs[1].xyz_after_settle, objs[1].pose_p)),
                      objs[1].move_round)>>
              \o other_obj_xy_move_dist(Tail(objs))

\* the literal 0.03 as a distance
MoveThreshDist == Float(MoveThresh * MoveThresh, 0)

\* mutant: "<=" for "<" in the comparison with the other objects
moved_correct_obj_leq(sc) ==
    LET s == source_obj_xy_move_dist(sc)
        o == other_obj_xy_move_dist(sc.episode_objs)
    IN  /\ FloatGt(s, MoveThreshDist)
        /\ \A i \in 1..Len(o) : ~FloatGt(o[i], s)

\* mutant: any() for all() over the other objects
moved_correct_obj_any(sc) ==
    LET s == source_obj_xy_move_dist(sc)
        o == other_obj_xy_move_dist(sc.episode_objs)
    IN  /\ FloatGt(s, MoveThreshDist)
        /\ \E i \in 1..Len(o) : FloatLt(o[i], s)

moved_correct_obj(sc) ==
    LET s == source_obj_xy_move_dist(sc)
        o == other_obj_xy_move_dist(sc.episode_objs)
    IN  /\ FloatGt(s, MoveThreshDist)
        /\ \A i \in 1..Len(o) : FloatLt(o[i], s)

moved_wrong_obj(sc) ==
    LET s == source_obj_xy_move_dist(sc)
        o == other_obj_xy_move_dist(sc.episode_objs)
    IN  /\ \E i \in 1..Len(o) : FloatGt(o[i], MoveThreshDist)
        /\ \E i \in 1..Len(o) : FloatGt(o[i], s)

\* mutant: the counter is not set back on a step without grasp
next_consecutive_grasp_no_reset(counter, is_src_obj_grasped) ==
    IF is_src_obj_grasped THEN counter + 1 ELSE counter

\* the counter after this call
next_consecutive_grasp(counter, is_src_obj_grasped) ==
    IF is_src_obj_grasped THEN counter + 1 ELSE 0

\* mutant: ">" for ">="
consecutive_grasp_flag_gt(counter) == counter > GraspSteps

consecutive_grasp_flag(counter) == counter >= GraspSteps

\* norm(offset[:2]) <= norm(tgt_obj_half_length_bbox[:2]) - 0.005, in half millimetres
xy_flag(sc) ==
    LET offset == InHalfMm(VecSub(sc.source_obj_pose_p, sc.target_obj_pose_p))
        tgt_obj_half_length_bbox == HalfVec(sc.episode_target_obj_bbox_world)
        sign == NormVsNormMinus(NormSqXY(offset), NormSqXY(tgt_obj_half_length_bbox),
                                2 * XYMargin)
    IN  sign < 0 \/ (sign = 0 /\ sc.round.xy_offset <= sc.round.xy_limit)

\* mutant: the source need not be above the target's centre
z_flag_no_above(sc) ==
    LET offset == InHalfMm(VecSub(sc.source_obj_pose_p, sc.target_obj_pose_p))
        tgt_obj_half_length_bbox == HalfVec(sc.episode_target_obj_bbox_world)
        src_obj_half_length_bbox == HalfVec(sc.episode_source_obj_bbox_world)
        gap == Float(offset[3] - tgt_obj_half_length_bbox[3] - src_obj_half_length_bbox[3],
                     sc.round.z_gap)
    IN  ~FloatGt(gap, Float(2 * ZGapMax, 0))

\* offset[2] > 0 is exact: a float difference has the sign of the exact one
z_flag(sc) ==
    LET offset == InHalfMm(VecSub(sc.source_obj_pose_p, sc.target_obj_pose_p))
        tgt_obj_half_length_bbox == HalfVec(sc.episode_target_obj_bbox_world)
        src_obj_half_length_bbox == HalfVec(sc.episode_source_obj_bbox_world)
        gap == Float(offset[3] - tgt_obj_half_length_bbox[3] - src_obj_half_length_bbox[3],
                     sc.round.z_gap)
    IN  /\ offset[3] > 0
        /\ ~FloatGt(gap, Float(2 * ZGapMax, 0))

ignore_actor_names == <<TargetName>> \o robot_link_names

\* other_obj_contact_actor_name after lines 82-86: <<TRUE, name>> for the party
\* that is not the source, <<FALSE, "">> for None (the source is no party)
other_obj_contact_actor_name(contact) ==
    IF contact.actor0 = SourceName THEN <<TRUE, contact.actor1>>
    ELSE IF contact.actor1 = SourceName THEN <<TRUE, contact.actor0>>
    ELSE <<FALSE, "">>

\* np.linalg.norm(contact_impulse)
contact_impulse_norm(contact) ==
    Float(NormSq3(SumImpulse(contact.points)), contact.impulse_round)

\* the literal 1e-6 as a norm
ImpulseThreshNorm == Float(ImpulseThresh * ImpulseThresh, 0)

\* mutant: ">=" for ">" in the impulse test
contact_disqualifies_geq(contact) ==
    /\ other_obj_contact_actor_name(contact)[1]
    /\ ~InSeq(other_obj_contact_actor_name(contact)[2], ignore_actor_names)
    /\ ~FloatLt(contact_impulse_norm(contact), ImpulseThreshNorm)

\* the test of one contact record that sets flag = False
contact_disqualifies(contact) ==
    /\ other_obj_contact_actor_name(contact)[1]
    /\ ~InSeq(other_obj_contact_actor_name(contact)[2], ignore_actor_names)
    /\ FloatGt(contact_impulse_norm(contact), ImpulseThreshNorm)

\* the loop over contacts: flag stays True until the first disqualifying record (break)
RECURSIVE contact_flag(_)
contact_flag(contacts) ==
    IF contacts = <<>> THEN TRUE
    ELSE IF contact_disqualifies(contacts[1]) THEN FALSE
    ELSE contact_flag(Tail(contacts))

src_on_target(sc) == (xy_flag(sc) /\ z_flag(sc)) /\ contact_flag(sc.contacts)

_initialize_episode_stats ==
    [moved_correct_obj |-> FALSE,
     moved_wrong_obj |-> FALSE,
     is_src_obj_grasped |-> FALSE,
     consecutive_grasp |-> FALSE,
     src_on_target |-> FALSE]

\* mutant: the two grasp fields are overwritten like the others
update_episode_stats_overwrite(stats, mc, mw, sot, grasped, cg) ==
    [moved_correct_obj |-> mc,
     moved_wrong_obj |-> mw,
     src_on_target |-> sot,
     is_src_obj_grasped |-> grasped,
     consecutive_grasp |-> cg]

\* mutant: src_on_target is OR-accumulated like the grasp fields
update_episode_stats_or(stats, mc, mw, sot, grasped, cg) ==
    [moved_correct_obj |-> mc,
     moved_wrong_obj |-> mw,
     src_on_target |-> stats.src_on_target \/ sot,
     is_src_obj_grasped |-> stats.is_src_obj_grasped \/ grasped,
     consecutive_grasp |-> stats.consecutive_grasp \/ cg]

\* self.episode_stats after the five assignments of evaluate()
update_episode_stats(stats, mc, mw, sot, grasped, cg) ==
    [moved_correct_obj |-> mc,
     moved_wrong_obj |-> mw,
     src_on_target |-> sot,
     is_src_obj_grasped |-> stats.is_src_obj_grasped \/ grasped,
     consecutive_grasp |-> stats.consecutive_grasp \/ cg]

-----------------------------------------------------------------------------
(* Scenes *)

\* an episode object: where it settled, where it is, and the rounding of the
\* distance between the two
Obj(name, settle, p, rnd) ==
    [name |-> name, xyz_after_settle |-> settle, pose_p |-> p, move_round |-> rnd]

\* a contact record: the two actors, the impulses of its points, and the
\* rounding of the norm of their sum
Contact(a0, a1, points, rnd) ==
    [actor0 |-> a0, actor1 |-> a1, points |-> points, impulse_round |-> rnd]

\* where the source and the target settled
SourceRest == <<200, 0, 10>>
TargetRest == <<0, 0, 15>>

\* no rounding error anywhere
Round0 == [src_move |-> 0, xy_offset |-> 0, xy_limit |-> 0, z_gap |-> 0]

\* a scene at rest: nothing moved, source beside the target, no contacts, no grasp
Scene0 ==
    [source_obj_pose_p |-> SourceRest,
     target_obj_pose_p |-> TargetRest,
     episode_source_obj_xyz_after_settle |-> SourceRest,
     episode_objs |-> <<Obj(SourceName, SourceRest, SourceRest, 0),
                        Obj(TargetName, TargetRest, TargetRest, 0)>>,
     check_grasp |-> FALSE,
     episode_target_obj_bbox_world |-> <<100, 100, 30>>,
     episode_source_obj_bbox_world |-> <<20, 20, 20>>,
     contacts |-> <<>>,
     round |-> Round0]

\* sequences over S of length at most n
SeqsUpTo(S, n) == UNION {[1..k -> S] : k \in 0..n}

\* s with x inserted after its first k elements (at the end if s is shorter)
InsertAt(s, k, x) ==
    LET j == IF k < Len(s) THEN k ELSE Len(s)
    IN  SubSeq(s, 1, j) \o <<x>> \o SubSeq(s, j + 1, Len(s))

\* the rounding ranks of a distance that is compared with one other quantity:
\* a distance of 0 is exact
RoundsOf(v) == IF v[1] = 0 /\ v[2] = 0 THEN {0} ELSE Rounds(1)

\* Scene0 with the source at sp and the target at tp
Placed(sp, tp) ==
    [Scene0 EXCEPT
        !.source_obj_pose_p = sp,
        !.target_obj_pose_p = tp,
        !.episode_objs = <<Obj(SourceName, SourceRest, sp, 0),
                           Obj(TargetName, TargetRest, tp, 0)>>]

(* Scenes of an episode: the source at rest, lifted, or on the target; the
   target at rest or pushed; the source free, touching the table, or
   touching the target; grasped or not. *)
EpisodeScenes ==
    {[Placed(sp, tp) EXCEPT
        !.check_grasp = g,
        !.contacts = cs] :
        sp \in {SourceRest, <<150, 0, 60>>, <<0, 0, 40>>},
        tp \in {TargetRest, <<0, 40, 15>>},
        g \in BOOLEAN,
        cs \in {<<>>,
                <<Contact(SourceName, "table", <<<<0, 0, 50>>>>, 0)>>,
                <<Contact(TargetName, SourceName, <<<<0, 0, 50>>>>, 0)>>}}

(* Scenes for the placement test: offsets around the xy margin and the z
   clearance, for several boxes (one of odd lengths), with and without a
   disqualifying contact, under every rounding of the three computed
   quantities. *)
PlaceOffsets ==
    {<<x, y, z>> : x \in {0, 46, 65, 66}, y \in {0, 10, 47}, z \in {-10, 0, 1, 45, 46, 50}}

PlaceRounds ==
    {[Round0 EXCEPT !.xy_offset = a, !.xy_limit = b, !.z_gap = c] :
        a \in Rounds(1), b \in Rounds(1), c \in Rounds(1)}

PlaceScenes ==
    {sc \in
        {[Placed(<<tp[1] + off[1], tp[2] + off[2], tp[3] + off[3]>>, tp) EXCEPT
            !.episode_target_obj_bbox_world = tb,
            !.episode_source_obj_bbox_world = sb,
            !.contacts = cs,
            !.round = r] :
            tp \in {TargetRest, <<100, -50, 0>>},
            off \in PlaceOffsets,
            tb \in {<<100, 100, 30>>, <<8, 6, 2>>, <<4, 4, 2>>, <<30, 0, 30>>, <<101, 101, 31>>},
            sb \in {<<20, 20, 20>>, <<30, 30, 30>>},
            cs \in {<<>>,
                    <<Contact(SourceName, "table", <<<<0, 0, 11>>>>, 0)>>,
                    <<Contact(SourceName, "table", <<<<0, 0, 10>>>>, 0)>>},
            r \in PlaceRounds} :
        sc.round.xy_offset \in RoundsOf(VecSub(sc.source_obj_pose_p, sc.target_obj_pose_p))}

(* Scenes for the contact filter: the source within the target's box or
   beside it, and every list of at most MaxContacts contact records; a
   record at exactly 1e-6 comes with every rounding. *)
ContactPairs ==
    {<<SourceName, "table">>, <<"table", SourceName>>, <<SourceName, TargetName>>,
     <<"link_0", SourceName>>, <<"table", TargetName>>, <<SourceName, "">>}

ContactRecords ==
    {Contact(pr[1], pr[2], pts[1], pts[2]) :
        pr \in ContactPairs,
        pts \in {<<<<>>, 0>>,
                 <<<<<<0, -11, 0>>>>, 0>>,
                 <<<<<<10, 0, 0>>>>, -1>>,
                 <<<<<<10, 0, 0>>>>, 0>>,
                 <<<<<<6, 0, 0>>, <<0, 8, 0>>>>, 0>>,
                 <<<<<<-1, 0, 0>>, <<11, 0, 0>>>>, 1>>}}

ContactScenes ==
    {[Placed(sp, TargetRest) EXCEPT !.contacts = cs] :
        sp \in {<<0, 0, 40>>, SourceRest},
        cs \in SeqsUpTo(ContactRecords, MaxContacts)}

(* Scenes for the displacement classifier: the source and at most MaxOthers
   other objects, each moved from where it settled, with the source at
   either end of episode_objs; distances that can tie come with several
   rounding ranks, and those of exactly 0.03 with enough ranks to put the
   source and every other object in any order above the literal. *)
SourceMoves ==
    {<<<<0, 0>>, 0>>, <<<<29, 0>>, 0>>, <<<<0, -31>>, 0>>,
     <<<<30, 0>>, -1>>, <<<<30, 0>>, 0>>, <<<<30, 0>>, 1>>, <<<<30, 0>>, 2>>,
     <<<<18, 24>>, 1>>,
     <<<<50, 0>>, -1>>, <<<<50, 0>>, 0>>, <<<<30, 40>>, 0>>, <<<<30, 40>>, 1>>}

OtherMoves ==
    {<<<<0, 0>>, 0>>, <<<<29, 0>>, 0>>,
     <<<<50, 0>>, -1>>, <<<<50, 0>>, 0>>, <<<<30, 40>>, 1>>,
     <<<<60, 0>>, 0>>}
    \cup {<<<<30, 0>>, r>> : r \in 0..(MaxOthers + 1)}

MoveScenes ==
    {[Scene0 EXCEPT
        !.source_obj_pose_p = <<SourceRest[1] + sm[1][1], SourceRest[2] + sm[1][2], SourceRest[3]>>,
        !.round = [Round0 EXCEPT !.src_move = sm[2]],
        !.episode_objs =
            InsertAt([i \in 1..Len(om) |->
                        Obj(IF i = 1 THEN TargetName ELSE "obj",
                            <<10 * i, 0, 15>>,
                            <<10 * i + om[i][1][1], om[i][1][2], 15>>,
                            om[i][2])],
                     k,
                     Obj(SourceName, SourceRest,
                         <<SourceRest[1] + sm[1][1], SourceRest[2] + sm[1][2], SourceRest[3]>>,
                         sm[2]))] :
        sm \in SourceMoves,
        om \in SeqsUpTo(OtherMoves, MaxOthers),
        k \in {0, MaxOthers}}

-----------------------------------------------------------------------------
(* Operations *)

Init ==
    /\ consecutive_grasp = 0
    /\ episode_stats = _initialize_episode_stats
    /\ scene = Scene0
    /\ ret = NoRet
    /\ hist = <<>>
    /\ seen = _initialize_episode_stats

\* super().reset(): the parent's reset, which calls self._initialize_episode_stats()
super_reset ==
    /\ episode_stats' = _initialize_episode_stats

\* mutant: reset() without "self.consecutive_grasp = 0"
reset_keeps_counter ==
    /\ UNCHANGED consecutive_grasp
    /\ super_reset
    /\ ret' = NoRet
    /\ hist' = <<>>
    /\ seen' = _initialize_episode_stats
    /\ UNCHANGED scene

reset ==
    /\ consecutive_grasp' = 0
    /\ super_reset
    /\ ret' = NoRet
    /\ hist' = <<>>
    /\ seen' = _initialize_episode_stats
    /\ UNCHANGED scene

evaluate(sc) ==
    /\ Len(hist) < MaxSteps
    /\ LET mc == moved_correct_obj(sc)
           mw == moved_wrong_obj(sc)
           is_src_obj_grasped == sc.check_grasp
           counter == next_consecutive_grasp(consecutive_grasp, is_src_obj_grasped)
           cg == consecutive_grasp_flag(counter)
           sot == src_on_target(sc)
           stats == update_episode_stats(episode_stats, mc, mw, sot, is_src_obj_grasped, cg)
       IN  /\ consecutive_grasp' = counter
           /\ episode_stats' = stats
           /\ ret' = [moved_correct_obj |-> mc,
                      moved_wrong_obj |-> mw,
                      is_src_obj_grasped |-> is_src_obj_grasped,
                      consecutive_grasp |-> cg,
                      src_on_target |-> sot,
                      episode_stats |-> stats,
                      success |-> sot]
           /\ hist' = Append(hist, is_src_obj_grasped)
           /\ seen' = [moved_correct_obj |-> seen.moved_correct_obj \/ mc,
                       moved_wrong_obj |-> seen.moved_wrong_obj \/ mw,
                       is_src_obj_grasped |-> seen.is_src_obj_grasped \/ is_src_obj_grasped,
                       consecutive_grasp |-> seen.consecutive_grasp \/ cg,
                       src_on_target |-> seen.src_on_target \/ sot]
    /\ scene' = sc

-----------------------------------------------------------------------------
(* Specifications *)

step == \E sc \in EpisodeScenes : evaluate(sc)

Next == reset \/ step

\* episodes: any sequence of resets and evaluate() calls
Spec == Init /\ [][Next]_vars

\* one evaluate() of a scene drawn at the start
InitWith(S) ==
    /\ consecutive_grasp = 0
    /\ episode_stats = _initialize_episode_stats
    /\ scene \in S
    /\ ret = NoRet
    /\ hist = <<>>
    /\ seen = _initialize_episode_stats

first_evaluate == ret = NoRet /\ evaluate(scene)

SpecPlace == InitWith(PlaceScenes) /\ [][first_evaluate]_vars

SpecContact == InitWith(ContactScenes) /\ [][first_evaluate]_vars

SpecMove == InitWith(MoveScenes) /\ [][first_evaluate]_vars

-----------------------------------------------------------------------------
(* Properties.  They are stated on the inputs the last evaluate() read
   (scene) and on the calls of the episode (hist, seen), not through the
   operators that model evaluate().  Distances, gaps and impulses are the
   computed ones: "exactly 1e-6" is a computed norm that equals the literal. *)

Called == ret # NoRet

\* the offset of the source from the target, and the half boxes, in half millimetres
Off == InHalfMm(VecSub(scene.source_obj_pose_p, scene.target_obj_pose_p))
TgtHalf == HalfVec(scene.episode_target_obj_bbox_world)
SrcHalf == HalfVec(scene.episode_source_obj_bbox_world)

\* (1) horizontal distance <= norm of the target's xy half-extent - 0.005
WithinXY ==
    LET sign == NormVsNormMinus(NormSqXY(Off), NormSqXY(TgtHalf), 10)
    IN  sign < 0 \/ (sign = 0 /\ scene.round.xy_offset <= scene.round.xy_limit)

\* offset.z - target_half_extent.z - source_half_extent.z <= 0.02
GapWithin == ~FloatGt(Float(Off[3] - TgtHalf[3] - SrcHalf[3], scene.round.z_gap), Float(40, 0))

\* (2) strictly above the target's centre, with a gap of at most 0.02
AboveWithGap == Off[3] > 0 /\ GapWithin

\* a contact record between the source and a party that is neither the target
\* nor a robot link, whose summed impulse is strictly greater than 1e-6
Disqualifying(c) ==
    /\ \/ c.actor0 = SourceName /\ c.actor1 \notin {TargetName, "link_0", "link_1"}
       \/ c.actor1 = SourceName /\ c.actor0 \notin {TargetName, "link_0", "link_1"}
    /\ FloatGt(Float(NormSq3(SumImpulse(c.points)), c.impulse_round), Float(100, 0))

\* (3) the contact list holds a disqualifying record, at any place
Vetoed == \E i \in 1..Len(scene.contacts) : Disqualifying(scene.contacts[i])

(* C1: evaluate() returns success = true iff the source is within the xy
   margin of the target, strictly above it with a gap of at most 0.02, and
   no contact vetoes; a source centre not strictly above the target centre
   is never a success. *)
C1_SuccessIff ==
    Called =>
        /\ ret.success = (WithinXY /\ AboveWithGap /\ ~Vetoed)
        /\ (Off[3] <= 0 => ~ret.success)

\* the source level with or below the target centre, inside the margin and the
\* gap, with no contact at all: not a success
C1_Witness ==
    /\ Called
    /\ Off[3] <= 0
    /\ WithinXY
    /\ GapWithin
    /\ scene.contacts = <<>>
    /\ ~ret.success

(* C2: with the source placed on the target, the contact filter vetoes iff
   some contact record, at any place of the list, is between the source and
   a party other than the target and the robot links and carries a summed
   impulse strictly greater than 1e-6. *)
C2_VetoIff ==
    (Called /\ WithinXY /\ AboveWithGap) => (ret.src_on_target = ~Vetoed)

\* a record at exactly 1e-6 with the table comes first and does not veto; the
\* record after it, with the source as second party, vetoes
C2_Witness ==
    /\ Called /\ WithinXY /\ AboveWithGap
    /\ Len(scene.contacts) = 2
    /\ scene.contacts[1] = Contact(SourceName, "table", <<<<6, 0, 0>>, <<0, 8, 0>>>>, 0)
    /\ scene.contacts[2] = Contact("table", SourceName, <<<<0, -11, 0>>>>, 0)
    /\ ~ret.src_on_target

(* C3: once an evaluate() of the episode computed moved_correct_obj = true,
   episode_stats['moved_correct_obj'] is true after that call and after
   every later call of the episode; the same for moved_wrong_obj. *)
C3_MovedStatsNeverRegress ==
    /\ seen.moved_correct_obj => episode_stats.moved_correct_obj
    /\ seen.moved_wrong_obj => episode_stats.moved_wrong_obj

\* the number of grasped steps at the end of h
RECURSIVE TrailingRun(_)
TrailingRun(h) ==
    IF h = <<>> \/ ~h[Len(h)] THEN 0
    ELSE 1 + TrailingRun(SubSeq(h, 1, Len(h) - 1))

\* the call number j of the episode, and the four before it, found the source grasped
FiveGraspedUpTo(j) == j >= 5 /\ \A i \in (j - 4)..j : hist[i]

(* C4: episode_stats['is_src_obj_grasped'] is the OR of the check_grasp
   results of the calls since the last reset, and
   episode_stats['consecutive_grasp'] the OR of their consecutive_grasp
   values. *)
C4_GraspStatsAreOr ==
    /\ episode_stats.is_src_obj_grasped = (\E i \in 1..Len(hist) : hist[i])
    /\ episode_stats.consecutive_grasp = seen.consecutive_grasp
    /\ episode_stats.consecutive_grasp = (\E j \in 1..Len(hist) : FiveGraspedUpTo(j))

\* both fields stay true after a call that found no grasp
C4_Witness ==
    /\ Called
    /\ ~ret.is_src_obj_grasped /\ ~ret.consecutive_grasp
    /\ episode_stats.is_src_obj_grasped /\ episode_stats.consecutive_grasp

(* C5: after every evaluate(), episode_stats['src_on_target'] equals the
   src_on_target and the success that call returned: it is overwritten. *)
C5_SrcOnTargetOverwritten ==
    Called =>
        /\ episode_stats.src_on_target = ret.src_on_target
        /\ ret.success = ret.src_on_target
        /\ ret.episode_stats = episode_stats

\* the source was on the target earlier in the episode and no longer is
C5_Witness ==
    /\ Called
    /\ seen.src_on_target
    /\ ~ret.src_on_target
    /\ ~episode_stats.src_on_target

(* C6: the grasp counter is the length of the current trailing run of
   grasped steps: 0 after a step without grasp, k after k grasped steps. *)
C6_CounterIsTrailingRun ==
    /\ consecutive_grasp = TrailingRun(hist)
    /\ (hist # <<>> /\ ~hist[Len(hist)]) => consecutive_grasp = 0

\* a run of two after an earlier run that a step without grasp ended
C6_Witness ==
    /\ Len(hist) = 5
    /\ hist[1] /\ hist[2] /\ ~hist[3] /\ hist[4] /\ hist[5]
    /\ consecutive_grasp = 2

(* C7: the consecutive_grasp that evaluate() returns is true iff the counter
   after the call is at least 5, that is iff this call and the four before
   it in the episode all found the source grasped. *)
C7_ThresholdFive ==
    Called =>
        /\ ret.consecutive_grasp = (consecutive_grasp >= 5)
        /\ ret.consecutive_grasp = FiveGraspedUpTo(Len(hist))

\* exactly five grasped steps, after a first step without grasp
C7_Witness ==
    /\ Called
    /\ Len(hist) = 6
    /\ ~hist[1]
    /\ consecutive_grasp = 5
    /\ ret.consecutive_grasp

(* C8: after a reset and before the first evaluate() of the new episode the
   grasp counter is 0 and the five episode_stats fields are false; and
   consecutive_grasp is never returned true with fewer than five grasped
   steps in the episode. *)
C8_NoLeakAcrossEpisodes ==
    /\ hist = <<>> =>
        /\ consecutive_grasp = 0
        /\ \A k \in DOMAIN episode_stats : episode_stats[k] = FALSE
    /\ (Called /\ ret.consecutive_grasp) => Cardinality({i \in 1..Len(hist) : hist[i]}) >= 5

\* a reset right after a call that found the source grasped
C8_Witness ==
    /\ hist = <<>>
    /\ scene.check_grasp
    /\ consecutive_grasp = 0
    /\ ~episode_stats.is_src_obj_grasped

\* the xy displacement of the source and of the other objects, and 0.03
SrcMove ==
    Float(NormSqXY(VecSub(scene.episode_source_obj_xyz_after_settle, scene.source_obj_pose_p)),
          scene.round.src_move)
OthersIdx == {i \in 1..Len(scene.episode_objs) : scene.episode_objs[i].name # SourceName}
OtherMove(i) ==
    Float(NormSqXY(VecSub(scene.episode_objs[i].xyz_after_settle, scene.episode_objs[i].pose_p)),
          scene.episode_objs[i].move_round)
Dist30 == Float(900, 0)

(* C9, as amended: one evaluate() never returns moved_correct_obj and
   moved_wrong_obj both true (both may be false). *)
C9_MovedFlagsExclusive ==
    Called => ~(ret.moved_correct_obj /\ ret.moved_wrong_obj)

\* both flags false although the source and another object moved more than 0.03
C9_Witness ==
    /\ Called
    /\ FloatGt(SrcMove, Dist30)
    /\ \E i \in OthersIdx : FloatGt(OtherMove(i), Dist30)
    /\ ~ret.moved_correct_obj /\ ~ret.moved_wrong_obj

(* C9, as claimed: there are displacement inputs for which one evaluate()
   returns both flags true, and inputs for which it returns both false. *)
C9_BothTrueAndBothFalseExist ==
    Called =>
        LET results == {<<moved_correct_obj(sc), moved_wrong_obj(sc)>> : sc \in MoveScenes \cup {scene}}
        IN  <<TRUE, TRUE>> \in results /\ <<FALSE, FALSE>> \in results

(* C10: moved_correct_obj = (s > 0.03 and every other displacement < s) and
   moved_wrong_obj = (some other displacement > 0.03 and some other
   displacement > s), for the source displacement s. *)
C10_DisplacementClassifier ==
    Called =>
        /\ ret.moved_correct_obj =
              (FloatGt(SrcMove, Dist30) /\ \A i \in OthersIdx : FloatLt(OtherMove(i), SrcMove))
        /\ ret.moved_wrong_obj =
              ((\E i \in OthersIdx : FloatGt(OtherMove(i), Dist30))
                  /\ (\E i \in OthersIdx : FloatGt(OtherMove(i), SrcMove)))
        /\ OthersIdx = {} => (ret.moved_correct_obj = (FloatGt(SrcMove, Dist30)) /\ ~ret.moved_wrong_obj)

\* another object moved exactly as far as the source, which moved more than 0.03
C10_Witness ==
    /\ Called
    /\ FloatGt(SrcMove, Dist30)
    /\ \E i \in OthersIdx : OtherMove(i) = SrcMove
    /\ \A i \in OthersIdx : ~FloatGt(OtherMove(i), SrcMove)
    /\ ~ret.moved_correct_obj /\ ~ret.moved_wrong_obj

====
